---- MODULE Spec2Model ----
(***************************************************************************)
(* TextProcessor (src/scripts/ml_functions.py): read/write/merge/backup of *)
(* text files under an input and an output directory, text statistics and  *)
(* regular-expression search.  Strings are sequences of one-character      *)
(* strings; a path is the string os.path.join builds.                      *)
(***************************************************************************)
EXTENDS Integers, Sequences, FiniteSets, TLC

VARIABLES
    input_dir,   \* self.input_dir
    output_dir,  \* self.output_dir
    dirs,        \* the directories that exist on disk
    files,       \* the files on disk: path -> characters stored
    call,        \* the latest call on the processor: operation and arguments
    outcome,     \* how that call ended: the value returned or the exception raised
    log,         \* the records that call handed to the logger, in order
    writes,      \* the write_text_file invocations of that call: <<filename, content>>
    returned,    \* for each analyze_text / search_text call made: first result, and when
    ncalls,      \* number of calls made so far
    main,        \* the run of main(): position, loop index, locals, lines printed
    batch        \* the run of the Batch Summarization page of the summarization app

vars == <<input_dir, output_dir, dirs, files, call, outcome, log, writes, returned, ncalls,
         main, batch>>

\* ------------------------------------------------------------------ bounds
MaxTextLen == 4
MaxExtraWords == 2
MaxMergeLen == 2
MaxCalls == 3

\* ------------------------------------------------------- generic helpers
Range(s) == {s[i] : i \in 1..Len(s)}

Min(a, b) == IF a < b THEN a ELSE b

SetMax(S) == CHOOSE x \in S : \A y \in S : y <= x

SetMin(S) == CHOOSE x \in S : \A y \in S : x <= y

StringsUpTo(A, n) == UNION {[1..k -> A] : k \in 0..n}

\* sep.join(parts)
RECURSIVE Join(_, _)
Join(sep, parts) ==
    IF parts = <<>> THEN <<>>
    ELSE IF Len(parts) = 1 THEN parts[1]
    ELSE parts[1] \o sep \o Join(sep, Tail(parts))

None == [none |-> TRUE]

Ok(v) == [status |-> "ok", value |-> v]

Raise(e) == [status |-> "raise", exc |-> e]

Info(m) == [level |-> "INFO", msg |-> m]

Error(m) == [level |-> "ERROR", msg |-> m]

\* ------------------------------------------------------------ analyze_text
Whitespace == {" ", "\n", "\t", "\r"}

SentenceDelims == {".", "!", "?"}

TopN == 5

\* first index >= i of text whose character is in chars, Len(text) + 1 when none
IndexIn(text, chars, i) ==
    SetMin({j \in i..Len(text) : text[j] \in chars} \cup {Len(text) + 1})

\* first index >= i of text whose character is not in chars, Len(text) + 1 when none
IndexNotIn(text, chars, i) ==
    SetMin({j \in i..Len(text) : text[j] \notin chars} \cup {Len(text) + 1})

\* text.split(): the maximal runs of non-whitespace characters, word by word
RECURSIVE SplitFrom(_, _)
SplitFrom(text, i) ==
    LET b == IndexNotIn(text, Whitespace, i)
        e == IndexIn(text, Whitespace, b)
    IN  IF b > Len(text) THEN <<>>
        ELSE <<SubSeq(text, b, e - 1)>> \o SplitFrom(text, e)

Split(text) == SplitFrom(text, 1)

\* first index >= i of text that is not a sentence delimiter
RECURSIVE SkipDelims(_, _)
SkipDelims(text, i) ==
    IF i <= Len(text) /\ text[i] \in SentenceDelims THEN SkipDelims(text, i + 1) ELSE i

ReSplitRunEnd_Single(text, i) == i + 1

ReSplitRunEnd(text, i) == SkipDelims(text, i)

\* re.split(r'[.!?]+', text): the pieces between the matches, piece by piece
RECURSIVE ReSplitFrom(_, _)
ReSplitFrom(text, i) ==
    LET d == IndexIn(text, SentenceDelims, i)
    IN  IF d > Len(text) THEN <<SubSeq(text, i, Len(text))>>
        ELSE <<SubSeq(text, i, d - 1)>> \o ReSplitFrom(text, ReSplitRunEnd(text, d))

ReSplit(text) == ReSplitFrom(text, 1)

\* Counter(words): (word, count) pairs in order of first insertion
CounterAdd(c, w) ==
    IF \E i \in 1..Len(c) : c[i][1] = w
    THEN [i \in 1..Len(c) |-> IF c[i][1] = w THEN <<w, c[i][2] + 1>> ELSE c[i]]
    ELSE Append(c, <<w, 1>>)

RECURSIVE Counter(_)
Counter(words) ==
    IF words = <<>> THEN <<>>
    ELSE CounterAdd(Counter(SubSeq(words, 1, Len(words) - 1)), words[Len(words)])

RemoveAt(s, i) == SubSeq(s, 1, i - 1) \o SubSeq(s, i + 1, Len(s))

NextLargest_Last(items) ==
    LET m == SetMax({items[i][2] : i \in 1..Len(items)})
    IN  SetMax({i \in 1..Len(items) : items[i][2] = m})

\* index of the item heapq.nlargest yields next: highest count, earliest first
NextLargest(items) ==
    LET m == SetMax({items[i][2] : i \in 1..Len(items)})
    IN  SetMin({i \in 1..Len(items) : items[i][2] = m})

RECURSIVE SortedByCount(_)
SortedByCount(items) ==
    IF items = <<>> THEN <<>>
    ELSE LET i == NextLargest(items)
         IN  <<items[i]>> \o SortedByCount(RemoveAt(items, i))

\* Counter.most_common(n)
MostCommon(items, n) == SubSeq(SortedByCount(items), 1, Min(n, Len(items)))

RECURSIVE SumLen(_)
SumLen(words) == IF words = <<>> THEN 0 ELSE Len(Head(words)) + SumLen(Tail(words))

\* a / b on numbers: a quotient kept as the exact fraction, or ZeroDivisionError
TrueDiv(a, b) == IF b = 0 THEN Raise("ZeroDivisionError") ELSE Ok([num |-> a, den |-> b])

Zero == [num |-> 0, den |-> 1]

AverageWordLength_Unguarded(words) == TrueDiv(SumLen(words), Len(words))

AverageWordLength(words) ==
    IF words # <<>> THEN TrueDiv(SumLen(words), Len(words)) ELSE Ok(Zero)

\* the body of the try block of analyze_text
Analysis(text) ==
    LET words == Split(text)
        sentences == ReSplit(text)
        avg == AverageWordLength(words)
    IN  IF avg.status = "raise" THEN avg
        ELSE Ok([word_count |-> Len(words),
                 character_count |-> Len(text),
                 sentence_count |-> Len(sentences),
                 average_word_length |-> avg.value,
                 most_common_words |-> MostCommon(Counter(words), TopN)])

\* ------------------------------------------------------------- search_text
\* sre_parse on the supported dialect: literals, \c escapes, '.', [..] and
\* [^..] sets, the greedy repeats + and * on a single-character atom, and
\* capture groups.  The result is the list of repeated atoms, the item span
\* of every group in order of its '(' and an error for what re.compile rejects.
\* A repeat applied to a group is outside the dialect; no pattern used has one.
Lit(c) == [neg |-> FALSE, set |-> {c}]

Dot == [neg |-> TRUE, set |-> {"\n"}]

Item(atom, q) == [atom |-> atom, q |-> q]

ParseStart == [items |-> <<>>, groups |-> <<>>, stack |-> <<>>, last |-> "none", err |-> "",
               next |-> 1]

ParseError(st, e) == [st EXCEPT !.err = e]

PushAtom(st, atom, n) ==
    [st EXCEPT !.items = Append(@, Item(atom, "1")), !.last = "atom", !.next = n]

\* index of the first "]" of p at or after i, 0 when there is none
RECURSIVE FindClose(_, _)
FindClose(p, i) ==
    IF i > Len(p) THEN 0 ELSE IF p[i] = "]" THEN i ELSE FindClose(p, i + 1)

ParseSet(p, i, st) ==
    LET neg == i + 1 <= Len(p) /\ p[i + 1] = "^"
        first == IF neg THEN i + 2 ELSE i + 1
        close == FindClose(p, first)
    IN  IF close = 0 THEN ParseError(st, "unterminated character set")
        ELSE PushAtom(st, [neg |-> neg, set |-> {p[j] : j \in first..(close - 1)}], close + 1)

ParseRepeat(p, i, st) ==
    IF st.last = "none" THEN ParseError(st, "nothing to repeat")
    ELSE IF st.last = "quant" THEN ParseError(st, "multiple repeat")
    ELSE IF st.last = "close" THEN ParseError(st, "unsupported: repeated group")
    ELSE [st EXCEPT !.items[Len(st.items)].q = p[i], !.last = "quant", !.next = i + 1]

ParseOpen(p, i, st) ==
    [st EXCEPT !.groups = Append(@, [from |-> Len(st.items) + 1, to |-> -1]),
               !.stack = Append(@, Len(st.groups) + 1),
               !.last = "none", !.next = i + 1]

ParseClose(p, i, st) ==
    IF st.stack = <<>> THEN ParseError(st, "unbalanced parenthesis")
    ELSE [st EXCEPT !.groups[st.stack[Len(st.stack)]].to = Len(st.items),
                    !.stack = SubSeq(@, 1, Len(@) - 1),
                    !.last = "close", !.next = i + 1]

ParseToken(p, i, st) ==
    IF p[i] = "\\"
    THEN (IF i = Len(p) THEN ParseError(st, "bad escape (end of pattern)")
          ELSE PushAtom(st, Lit(p[i + 1]), i + 2))
    ELSE IF p[i] = "[" THEN ParseSet(p, i, st)
    ELSE IF p[i] = "." THEN PushAtom(st, Dot, i + 1)
    ELSE IF p[i] \in {"+", "*"} THEN ParseRepeat(p, i, st)
    ELSE IF p[i] = "(" THEN ParseOpen(p, i, st)
    ELSE IF p[i] = ")" THEN ParseClose(p, i, st)
    ELSE PushAtom(st, Lit(p[i]), i + 1)

RECURSIVE ParseFrom(_, _)
ParseFrom(p, st) ==
    IF st.err # "" THEN st
    ELSE IF st.next > Len(p)
         THEN (IF st.stack # <<>> THEN ParseError(st, "missing ), unterminated subpattern")
               ELSE st)
         ELSE ParseFrom(p, ParseToken(p, st.next, st))

\* re.compile(pattern)
Compile(p) == ParseFrom(p, ParseStart)

AtomMatches(atom, ch) == (ch \in atom.set) # atom.neg

\* number of consecutive characters of text from pos that the atom matches
RECURSIVE RunLen(_, _, _)
RunLen(text, atom, pos) ==
    IF pos <= Len(text) /\ AtomMatches(atom, text[pos])
    THEN 1 + RunLen(text, atom, pos + 1) ELSE 0

\* sre_match from item k at pos: the positions before items k..n and the end
\* of the match, <<>> when there is no match.  Repeats are greedy and give
\* back one character at a time; a match that must advance is not empty.
RECURSIVE MatchFrom(_, _, _, _, _)
MatchFrom(text, items, k, pos, forbidEnd) ==
    IF k > Len(items) THEN (IF pos = forbidEnd THEN <<>> ELSE <<pos>>)
    ELSE LET it == items[k]
             run == RunLen(text, it.atom, pos)
             lo == IF it.q = "*" THEN 0 ELSE 1
             hi == IF it.q = "1" THEN Min(run, 1) ELSE run
             good == {n \in lo..hi : MatchFrom(text, items, k + 1, pos + n, forbidEnd) # <<>>}
         IN  IF good = {} THEN <<>>
             ELSE <<pos>> \o MatchFrom(text, items, k + 1, pos + SetMax(good), forbidEnd)

\* the match at the first position of lo..hi that has one, the positions tried
\* in increasing order, the lower half of the range before the upper half.  A
\* match from a position after forbidEnd cannot end at forbidEnd.
RECURSIVE SearchIn(_, _, _, _, _)
SearchIn(text, items, lo, hi, forbidEnd) ==
    IF lo > hi THEN <<>>
    ELSE IF lo = hi THEN MatchFrom(text, items, 1, lo, forbidEnd)
    ELSE LET mid == (lo + hi) \div 2
             m == SearchIn(text, items, lo, mid, forbidEnd)
         IN  IF m # <<>> THEN m ELSE SearchIn(text, items, mid + 1, hi, forbidEnd)

\* sre_search: the first position >= start with a match; must_advance only
\* constrains the attempt at start itself
SearchFrom(text, items, start, must_advance) ==
    SearchIn(text, items, start, Len(text) + 1, IF must_advance THEN start ELSE -1)

\* the successive matches pattern_findall walks over, as position vectors
RECURSIVE AllMatches(_, _, _, _)
AllMatches(text, items, start, must_advance) ==
    LET m == SearchFrom(text, items, start, must_advance)
    IN  IF m = <<>> THEN <<>>
        ELSE LET e == m[Len(m)]
             IN  <<m>> \o AllMatches(text, items, e, e = m[1])

Slice(text, b, e) == SubSeq(text, b, e - 1)

GroupText(text, m, g) == Slice(text, m[g.from], m[g.to + 1])

WholeMatch(text, groups, m) == Slice(text, m[1], m[Len(m)])

\* the list item pattern_findall builds for one match
FindallItem(text, groups, m) ==
    IF Len(groups) = 0 THEN Slice(text, m[1], m[Len(m)])
    ELSE IF Len(groups) = 1 THEN GroupText(text, m, groups[1])
    ELSE [g \in 1..Len(groups) |-> GroupText(text, m, groups[g])]

\* re.findall(pattern, text)
Findall(pattern, text) ==
    LET c == Compile(pattern)
    IN  IF c.err # "" THEN Raise(<<"re.error", c.err>>)
        ELSE LET ms == AllMatches(text, c.items, 1, FALSE)
             IN  Ok([i \in 1..Len(ms) |-> FindallItem(text, c.groups, ms[i])])

\* ------------------------------------------------------------ file system
Sep == <<"/">>

\* os.path.join(d, name) for a relative name
JoinPath(d, name) == d \o Sep \o name

LastIndexOf(s, c) == IF \E i \in 1..Len(s) : s[i] = c
                     THEN SetMax({i \in 1..Len(s) : s[i] = c}) ELSE 0

\* os.path.dirname(path)
DirName(path) == SubSeq(path, 1, LastIndexOf(path, "/") - 1)

\* os.path.splitext(name)[0]: the extension starts at the last dot of the
\* last component, leading dots of that component not counting
SplitextRoot(name) ==
    LET sepIndex == LastIndexOf(name, "/")
        dotIndex == LastIndexOf(name, ".")
    IN  IF dotIndex > sepIndex
           /\ \E k \in (sepIndex + 1)..(dotIndex - 1) : name[k] # "."
        THEN SubSeq(name, 1, dotIndex - 1)
        ELSE name

\* text-mode read (newline=None): "\r\n" and a lone "\r" become "\n"
UniversalNewlines(raw) ==
    LET AfterCR(i) == i > 1 /\ raw[i] = "\n" /\ raw[i - 1] = "\r"
        kept == SelectSeq([i \in 1..Len(raw) |-> i], LAMBDA i : ~AfterCR(i))
    IN  [k \in 1..Len(kept) |-> IF raw[kept[k]] = "\r" THEN "\n" ELSE raw[kept[k]]]

\* open(path, 'w') and write: the file is created or truncated, then filled
Stored(fs, path, content) ==
    [p \in DOMAIN fs \cup {path} |-> IF p = path THEN content ELSE fs[p]]

\* ---------------------------------------------------------- read_text_file
\* outcome and log records of read_text_file(filename) on the disk fs
ReadTextFile(fs, filename) ==
    LET file_path == JoinPath(input_dir, filename)
    IN  IF file_path \in DOMAIN fs
        THEN [out |-> Ok(UniversalNewlines(fs[file_path])),
              log |-> <<Info(<<"Successfully read file", filename>>)>>]
        ELSE [out |-> Raise("FileNotFoundError"),
              log |-> <<Error(<<"Error reading file", filename>>)>>]

\* --------------------------------------------------------- write_text_file
WritePath(filename) == JoinPath(output_dir, filename)

\* open(file_path, 'w') succeeds when the directory of the file exists
CanOpenForWrite(ds, file_path) == DirName(file_path) \in ds

WriteTextFile_NoRaise(fs, filename, content) ==
    LET file_path == WritePath(filename)
    IN  IF CanOpenForWrite(dirs, file_path)
        THEN [out |-> Ok(None),
              log |-> <<Info(<<"Successfully wrote to file", filename>>)>>,
              fs  |-> Stored(fs, file_path, content)]
        ELSE [out |-> Ok(None),
              log |-> <<Error(<<"Error writing to file", filename>>)>>,
              fs  |-> fs]

WriteTextFile_Append(fs, filename, content) ==
    LET file_path == WritePath(filename)
    IN  IF CanOpenForWrite(dirs, file_path)
        THEN [out |-> Ok(None),
              log |-> <<Info(<<"Successfully wrote to file", filename>>)>>,
              fs  |-> Stored(fs, file_path,
                             (IF file_path \in DOMAIN fs THEN fs[file_path] ELSE <<>>) \o content)]
        ELSE [out |-> Raise("FileNotFoundError"),
              log |-> <<Error(<<"Error writing to file", filename>>)>>,
              fs  |-> fs]

\* outcome, log records and resulting disk of write_text_file(filename, content)
WriteTextFile(fs, filename, content) ==
    LET file_path == WritePath(filename)
    IN  IF CanOpenForWrite(dirs, file_path)
        THEN [out |-> Ok(None),
              log |-> <<Info(<<"Successfully wrote to file", filename>>)>>,
              fs  |-> Stored(fs, file_path, content)]
        ELSE [out |-> Raise("FileNotFoundError"),
              log |-> <<Error(<<"Error writing to file", filename>>)>>,
              fs  |-> fs]

\* -------------------------------------------------------- merge_text_files
HeaderOpen == <<"-", "-", "-", " ">>

HeaderClose == <<" ", "-", "-", "-">>

NL == <<"\n">>

Section_NoNewline(filename, content) == HeaderOpen \o filename \o HeaderClose \o NL \o content

\* f"--- {filename} ---\n{content}\n"
Section(filename, content) == HeaderOpen \o filename \o HeaderClose \o NL \o content \o NL

\* the for loop over file_list from index k: the sections appended, the log
\* records, and the exception of the first read that fails
RECURSIVE MergeLoop(_, _, _)
MergeLoop(fs, file_list, k) ==
    IF k > Len(file_list) THEN [out |-> Ok(<<>>), log |-> <<>>]
    ELSE LET r == ReadTextFile(fs, file_list[k])
         IN  IF r.out.status = "raise" THEN r
             ELSE LET rest == MergeLoop(fs, file_list, k + 1)
                  IN  IF rest.out.status = "raise"
                      THEN [out |-> rest.out, log |-> r.log \o rest.log]
                      ELSE [out |-> Ok(<<Section(file_list[k], r.out.value)>> \o rest.out.value),
                            log |-> r.log \o rest.log]

\* '\n'.join(merged_content)
MergedText(merged_content) == Join(NL, merged_content)

MergeTextFiles_OpenFirst(fs, file_list, output_filename) ==
    LET loop == MergeLoop(fs, file_list, 1)
        text == IF loop.out.status = "raise" THEN <<>> ELSE MergedText(loop.out.value)
        w == WriteTextFile(fs, output_filename, text)
    IN  IF loop.out.status = "raise"
        THEN [out |-> loop.out, fs |-> w.fs, writes |-> <<<<output_filename, text>>>>,
              log |-> loop.log \o <<Error(<<"Error merging files">>)>>]
        ELSE IF w.out.status = "raise"
             THEN [out |-> w.out, fs |-> w.fs, writes |-> <<<<output_filename, text>>>>,
                   log |-> loop.log \o w.log \o <<Error(<<"Error merging files">>)>>]
             ELSE [out |-> Ok(None), fs |-> w.fs, writes |-> <<<<output_filename, text>>>>,
                   log |-> loop.log \o w.log
                           \o <<Info(<<"Successfully merged", Len(file_list), output_filename>>)>>]

MergeTextFiles(fs, file_list, output_filename) ==
    LET loop == MergeLoop(fs, file_list, 1)
    IN  IF loop.out.status = "raise"
        THEN [out |-> loop.out, fs |-> fs, writes |-> <<>>,
              log |-> loop.log \o <<Error(<<"Error merging files">>)>>]
        ELSE LET text == MergedText(loop.out.value)
                 w == WriteTextFile(fs, output_filename, text)
             IN  IF w.out.status = "raise"
                 THEN [out |-> w.out, fs |-> w.fs, writes |-> <<<<output_filename, text>>>>,
                       log |-> loop.log \o w.log \o <<Error(<<"Error merging files">>)>>]
                 ELSE [out |-> Ok(None), fs |-> w.fs, writes |-> <<<<output_filename, text>>>>,
                       log |-> loop.log \o w.log
                               \o <<Info(<<"Successfully merged", Len(file_list), output_filename>>)>>]

\* ----------------------------------------------------------- create_backup
Digit(d) == <<"0", "1", "2", "3", "4", "5", "6", "7", "8", "9">>[d + 1]

\* the decimal digits of n, zero-padded to width w (%Y, %m, %d, %H, %M, %S)
RECURSIVE Padded(_, _)
Padded(n, w) == IF w = 0 THEN <<>> ELSE Padded(n \div 10, w - 1) \o <<Digit(n % 10)>>

\* now.strftime("%Y%m%d_%H%M%S")
Strftime(now) ==
    Padded(now.year, 4) \o Padded(now.month, 2) \o Padded(now.day, 2) \o <<"_">>
    \o Padded(now.hour, 2) \o Padded(now.minute, 2) \o Padded(now.second, 2)

BakExt == <<".", "b", "a", "k">>

\* f"{os.path.splitext(filename)[0]}_{timestamp}.bak"
BackupFilename(filename, now) == SplitextRoot(filename) \o <<"_">> \o Strftime(now) \o BakExt

CreateBackup(fs, filename, now) ==
    LET r == ReadTextFile(fs, filename)
    IN  IF r.out.status = "raise"
        THEN [out |-> r.out, fs |-> fs, writes |-> <<>>,
              log |-> r.log \o <<Error(<<"Error creating backup">>)>>]
        ELSE LET backup_filename == BackupFilename(filename, now)
                 w == WriteTextFile(fs, backup_filename, r.out.value)
             IN  IF w.out.status = "raise"
                 THEN [out |-> w.out, fs |-> w.fs,
                       writes |-> <<<<backup_filename, r.out.value>>>>,
                       log |-> r.log \o w.log \o <<Error(<<"Error creating backup">>)>>]
                 ELSE [out |-> Ok(backup_filename), fs |-> w.fs,
                       writes |-> <<<<backup_filename, r.out.value>>>>,
                       log |-> r.log \o w.log \o <<Info(<<"Created backup", backup_filename>>)>>]

\* -------------------------------------------- analyze_text and search_text
\* analyze_text(text): the try block, its log record, the re-raise
AnalyzeText(text) ==
    LET a == Analysis(text)
    IN  IF a.status = "raise"
        THEN [out |-> a, log |-> <<Error(<<"Error analyzing text">>)>>]
        ELSE [out |-> a, log |-> <<Info(<<"Text analysis completed successfully">>)>>]

\* search_text(text, pattern)
SearchText(text, pattern) ==
    LET f == Findall(pattern, text)
    IN  IF f.status = "raise"
        THEN [out |-> f, log |-> <<Error(<<"Error searching text">>)>>]
        ELSE [out |-> f, log |-> <<Info(<<"Found matches for pattern", Len(f.value), pattern>>)>>]

\* ------------------------------------------------------------------ inputs
DirI == <<"i">>

DirO == <<"o">>

SubI == <<"i", "/", "s">>

SubO == <<"o", "/", "s">>

NameA == <<"a", ".", "t">>

NameB == <<"s", "/", "b">>

NameM == <<"m">>

FileNames == {NameA, NameB}

ReadNames == {NameA, NameM}

OutputNames == {NameM}

DiskContents == {<<"y", "\r", "\n">>}

WriteContents == {<<>>, <<"a", " ", "b", ".">>}

FileLists == StringsUpTo(FileNames, MaxMergeLen)

Times == {[year |-> 2024, month |-> 1, day |-> 5, hour |-> 9, minute |-> 3, second |-> 7],
          [year |-> 2025, month |-> 12, day |-> 31, hour |-> 23, minute |-> 59, second |-> 58]}

\* what may lie on disk before the processor is constructed
PreDirs == {{}, {DirI, SubI}, {DirO, SubO}}

PrePaths(ds) == {JoinPath(DirI, NameA)} \cup (IF SubI \in ds THEN {JoinPath(DirI, NameB)} ELSE {})

PreFiles(ds) == UNION {[P -> DiskContents] : P \in SUBSET PrePaths(ds)}

Alphabet == {"a", "b", " ", "\n", ".", "?"}

Vocabulary == {<<"a">>, <<"b">>, <<"c">>, <<"d">>, <<"e">>, <<"f">>}

AllWords == <<<<"a">>, <<"b">>, <<"c">>, <<"d">>, <<"e">>, <<"f">>>>

\* texts with more than TopN distinct words: every word of the vocabulary
\* once, with up to MaxExtraWords more words in front and one more behind
WordTexts ==
    {Join(<<" ">>, pre \o AllWords \o post) :
        pre \in StringsUpTo(Vocabulary, MaxExtraWords), post \in StringsUpTo(Vocabulary, 1)}

ExampleText == <<"p","r","i","n","t","(","1",")"," ","p","r","i","n","t","(","2",")">>

Texts == StringsUpTo(Alphabet, MaxTextLen) \cup WordTexts \cup {ExampleText}

SmallTexts == {<<"a", "b", " ", "a", ".">>}

PrintPattern == <<"p","r","i","n","t","\\","(","[","^",")","]","+","\\",")">>

HeaderPattern == <<"#","+"," ",".","+">>

Patterns == {<<"a">>, <<"a", "b">>, <<"a", "+">>, <<"a", "*">>, <<"a", "*", "b", "*">>,
             <<"(", "a", ")", "b">>, <<"a", "(", "b", "+", ")">>, <<"(", "a", ")", "(", "b", ")">>,
             <<"(", "a">>, <<"+", "a">>, <<"a", ")">>, <<"[", "a">>, <<"a", "\\">>,
             <<"a", "+", "*">>, PrintPattern, HeaderPattern}

SmallPatterns == {<<"(", "a", ")", "b">>, <<"(", "a">>}

\* main() is not running
MainIdle == [pc |-> "idle", k |-> 0, merged_content |-> <<>>, stdout |-> <<>>, fresh |-> FALSE]

\* the Batch Summarization page is not open
BatchIdle == [pc |-> "idle", uploaded_file |-> None, df |-> None, summaries |-> <<>>,
              results |-> <<>>, shown |-> <<>>, made |-> {}, disk |-> <<>>]

\* -------------------------------------------------------------------- Init
\* __init__: the two attributes are set and both directories made
Init ==
    /\ input_dir \in {DirI}
    /\ output_dir \in {DirI, DirO}
    /\ \E pre \in PreDirs :
          /\ dirs = pre \cup {input_dir, output_dir}
          /\ files \in PreFiles(pre)
    /\ call = [op |-> "__init__", args |-> <<input_dir, output_dir>>]
    /\ outcome = Ok(None)
    /\ log = <<Info(<<"TextProcessor initialized", input_dir, output_dir>>)>>
    /\ writes = <<>>
    /\ returned = <<>>
    /\ ncalls = 0
    /\ main = MainIdle
    /\ batch = BatchIdle

InitText ==
    /\ Init
    /\ output_dir = DirO
    /\ dirs = {DirI, DirO}
    /\ files = <<>>

\* ----------------------------------------------------------------- actions
\* the record of results, with the result of this call if it is its first
Recorded(c, out) ==
    IF c \in DOMAIN returned THEN returned
    ELSE [k \in DOMAIN returned \cup {c} |->
             IF k = c THEN [out |-> out, at |-> ncalls + 1] ELSE returned[k]]

Called(op, args) ==
    /\ ncalls < MaxCalls
    /\ ncalls' = ncalls + 1
    /\ call' = [op |-> op, args |-> args]
    /\ UNCHANGED <<input_dir, output_dir, dirs, main, batch>>

ReadCall(filename) ==
    LET r == ReadTextFile(files, filename)
    IN  /\ Called("read_text_file", <<filename>>)
        /\ outcome' = r.out
        /\ log' = r.log
        /\ writes' = <<>>
        /\ UNCHANGED <<files, returned>>

WriteCall(filename, content) ==
    LET w == WriteTextFile(files, filename, content)
    IN  /\ Called("write_text_file", <<filename, content>>)
        /\ outcome' = w.out
        /\ log' = w.log
        /\ writes' = <<<<filename, content>>>>
        /\ files' = w.fs
        /\ UNCHANGED returned

AnalyzeCall_Saving(text) ==
    LET a == AnalyzeText(text)
    IN  /\ Called("analyze_text", <<text>>)
        /\ outcome' = a.out
        /\ log' = a.log
        /\ writes' = <<>>
        /\ returned' = Recorded(<<"analyze_text", text>>, a.out)
        /\ files' = Stored(files, WritePath(NameM), text)

AnalyzeCall(text) ==
    LET a == AnalyzeText(text)
    IN  /\ Called("analyze_text", <<text>>)
        /\ outcome' = a.out
        /\ log' = a.log
        /\ writes' = <<>>
        /\ returned' = Recorded(<<"analyze_text", text>>, a.out)
        /\ UNCHANGED files

MergeCall(file_list, output_filename) ==
    LET m == MergeTextFiles(files, file_list, output_filename)
    IN  /\ Called("merge_text_files", <<file_list, output_filename>>)
        /\ outcome' = m.out
        /\ log' = m.log
        /\ writes' = m.writes
        /\ files' = m.fs
        /\ UNCHANGED returned

SearchCall(text, pattern) ==
    LET f == SearchText(text, pattern)
    IN  /\ Called("search_text", <<text, pattern>>)
        /\ outcome' = f.out
        /\ log' = f.log
        /\ writes' = <<>>
        /\ returned' = Recorded(<<"search_text", text, pattern>>, f.out)
        /\ UNCHANGED files

BackupCall(filename, now) ==
    LET b == CreateBackup(files, filename, now)
    IN  /\ Called("create_backup", <<filename>>)
        /\ outcome' = b.out
        /\ log' = b.log
        /\ writes' = b.writes
        /\ files' = b.fs
        /\ UNCHANGED returned

Next ==
    \/ \E filename \in ReadNames : ReadCall(filename)
    \/ \E filename \in FileNames, content \in WriteContents : WriteCall(filename, content)
    \/ \E text \in SmallTexts : AnalyzeCall(text)
    \/ \E file_list \in FileLists, output_filename \in OutputNames :
          MergeCall(file_list, output_filename)
    \/ \E text \in SmallTexts, pattern \in SmallPatterns : SearchCall(text, pattern)
    \/ \E filename \in FileNames, now \in Times : BackupCall(filename, now)

Spec == Init /\ [][Next]_vars

\* one call on a fresh processor, over the whole input space
NextText ==
    \/ ncalls = 0 /\ \E text \in Texts : AnalyzeCall(text)
    \/ ncalls = 0 /\ \E text \in Texts, pattern \in Patterns : SearchCall(text, pattern)

SpecText == InitText /\ [][NextText]_vars

\* ================================================================== claims
IsCall(op) == call.op = op

\* this step is a call of op
Calls(op) == ncalls' = ncalls + 1 /\ call'.op = op

Readable(fs, filename) == ReadTextFile(fs, filename).out.status = "ok"

ContentOf(fs, filename) == ReadTextFile(fs, filename).out.value

HeaderLine(filename) == HeaderOpen \o filename \o HeaderClose \o NL

OccursAt(text, part, i) ==
    /\ i + Len(part) - 1 <= Len(text)
    /\ \A j \in 1..Len(part) : text[i + j - 1] = part[j]

\* the parts occur in text one after the other, in their order
RECURSIVE OccurInOrder(_, _, _)
OccurInOrder(text, parts, start) ==
    IF parts = <<>> THEN TRUE
    ELSE LET at == {i \in start..(Len(text) + 1) : OccursAt(text, parts[1], i)}
         IN  /\ at # {}
             /\ OccurInOrder(text, Tail(parts), SetMin(at) + Len(parts[1]))

\* C1: after merge_text_files(names, out) on files that are all readable,
\* read_text_file(out) on the same processor succeeds and its text contains,
\* in list order, the header of every file followed by the content the file
\* had when merge was called.
C1_MergeThenRead ==
    [][(/\ Calls("merge_text_files")
        /\ \A k \in 1..Len(call'.args[1]) : Readable(files, call'.args[1][k]))
       => LET file_list == call'.args[1]
              r == ReadTextFile(files', call'.args[2])
          IN  /\ outcome'.status = "ok"
              /\ r.out.status = "ok"
              /\ OccurInOrder(r.out.value,
                              [k \in 1..Len(file_list) |->
                                  HeaderLine(file_list[k]) \o ContentOf(files, file_list[k])],
                              1)]_vars

IsDigit(c) == c \in {"0", "1", "2", "3", "4", "5", "6", "7", "8", "9"}

\* name is <root>_<8 digits>_<6 digits>.bak
IsBackupNameOf(name, root) ==
    /\ Len(name) = Len(root) + 20
    /\ SubSeq(name, 1, Len(root)) = root
    /\ name[Len(root) + 1] = "_"
    /\ \A i \in 2..9 : IsDigit(name[Len(root) + i])
    /\ name[Len(root) + 10] = "_"
    /\ \A i \in 11..16 : IsDigit(name[Len(root) + i])
    /\ SubSeq(name, Len(root) + 17, Len(root) + 20) = BakExt

\* the name without its extension, as the spec's basename: the part before
\* the last dot of the last path component
Basename(filename) ==
    IF \E i \in 1..Len(filename) : filename[i] = "." /\ \A j \in i..Len(filename) : filename[j] # "/"
    THEN SubSeq(filename, 1, SetMax({i \in 1..Len(filename) : filename[i] = "."}) - 1)
    ELSE filename

\* C2: for a readable file, create_backup(name) returns a name of the form
\* <basename>_<YYYYMMDD_HHMMSS>.bak and read_text_file of that name on the
\* same processor succeeds and equals the content the file had at the call.
C2_BackupThenRead ==
    [][(Calls("create_backup") /\ Readable(files, call'.args[1]))
       => /\ outcome'.status = "ok"
          /\ IsBackupNameOf(outcome'.value, Basename(call'.args[1]))
          /\ ReadTextFile(files', outcome'.value).out = Ok(ContentOf(files, call'.args[1]))]_vars

\* the merge format, section by section: header line, content, end of line,
\* and an empty line when another section follows
RECURSIVE MergeFormat(_, _)
MergeFormat(fs, file_list) ==
    IF file_list = <<>> THEN <<>>
    ELSE HeaderLine(file_list[1]) \o ContentOf(fs, file_list[1]) \o NL
         \o (IF Len(file_list) > 1 THEN NL \o MergeFormat(fs, Tail(file_list)) ELSE <<>>)

C4_WriteAlwaysSucceeds ==
    IsCall("write_text_file")
    => /\ outcome.status = "ok"
       /\ WritePath(call.args[1]) \in DOMAIN files
       /\ files[WritePath(call.args[1])] = call.args[2]

\* C4: write_text_file makes no directory.  It succeeds exactly when the
\* directory of the target path exists; then the target holds exactly the
\* content, nothing of a previous content is left and no other file changes.
\* Otherwise it raises FileNotFoundError and the disk is as before.
C4_WriteNeedsDirectory ==
    [][Calls("write_text_file")
       => LET file_path == WritePath(call'.args[1])
          IN  IF DirName(file_path) \in dirs
              THEN /\ outcome' = Ok(None)
                   /\ DOMAIN files' = DOMAIN files \cup {file_path}
                   /\ files'[file_path] = call'.args[2]
                   /\ \A p \in DOMAIN files \ {file_path} : files'[p] = files[p]
              ELSE /\ outcome' = Raise("FileNotFoundError")
                   /\ files' = files]_vars

\* a write into a sub-directory that exists went through, after an earlier call
C4_Witness ==
    /\ IsCall("write_text_file")
    /\ outcome.status = "ok"
    /\ ncalls = 2
    /\ call.args[1] = NameB
    /\ call.args[2] # <<>>
    /\ files[WritePath(NameB)] = call.args[2]

\* the whole-match substrings of the successive matches of a valid pattern
MatchedSubstrings(text, pattern) ==
    LET c == Compile(pattern)
        ms == AllMatches(text, c.items, 1, FALSE)
    IN  [i \in 1..Len(ms) |-> WholeMatch(text, c.groups, ms[i])]

\* C5: for a valid pattern, with or without capture groups, search_text
\* returns the matched substrings of the non-overlapping matches, one string
\* per match, in order of position.
C5_ReturnsMatchedSubstrings ==
    (IsCall("search_text") /\ Compile(call.args[2]).err = "")
    => /\ outcome.status = "ok"
       /\ outcome.value = MatchedSubstrings(call.args[1], call.args[2])

Occurrences(words, w) == Cardinality({i \in 1..Len(words) : words[i] = w})

FirstOccurrence(words, w) == SetMin({i \in 1..Len(words) : words[i] = w})

\* C6: most_common_words is a list of (word, count) pairs over distinct
\* words of the text, count being the number of occurrences of the word, of
\* length min(5, number of distinct words), by descending count and, for equal
\* counts, by first occurrence; no word left out has a higher count than a
\* word included.
C6_MostCommonWords ==
    IsCall("analyze_text")
    => LET words == Split(call.args[1])
           mcw == outcome.value.most_common_words
           included == {mcw[i][1] : i \in 1..Len(mcw)}
       IN  /\ outcome.status = "ok"
           /\ Len(mcw) = Min(5, Cardinality(Range(words)))
           /\ \A i \in 1..Len(mcw) :
                 /\ mcw[i][1] \in Range(words)
                 /\ mcw[i][2] = Occurrences(words, mcw[i][1])
           /\ \A i, j \in 1..Len(mcw) :
                 i < j => /\ mcw[i][1] # mcw[j][1]
                          /\ \/ mcw[i][2] > mcw[j][2]
                             \/ /\ mcw[i][2] = mcw[j][2]
                                /\ FirstOccurrence(words, mcw[i][1])
                                     < FirstOccurrence(words, mcw[j][1])
           /\ \A w \in Range(words) \ included :
                 \A v \in included : Occurrences(words, w) <= Occurrences(words, v)

\* a text with more than five distinct words, two of the five kept tied and
\* the word left out tied with the last one kept
C6_Witness ==
    /\ IsCall("analyze_text")
    /\ outcome.status = "ok"
    /\ Cardinality(Range(Split(call.args[1]))) > 5
    /\ Len(outcome.value.most_common_words) = 5
    /\ outcome.value.most_common_words[1][2] = 2
    /\ outcome.value.most_common_words[2][2] = 1
    /\ outcome.value.most_common_words[5][2] = 1

\* number of maximal runs of sentence delimiters in text
DelimiterRuns(text) ==
    Cardinality({i \in 1..Len(text) :
                    /\ text[i] \in {".", "!", "?"}
                    /\ (i = 1 \/ text[i - 1] \notin {".", "!", "?"})})

\* C7: sentence_count is the number of maximal runs of '.', '!' and '?' in
\* the text plus one: a run of delimiters is one split point and the empty
\* fragment after a final delimiter counts.
C7_SentenceCount ==
    IsCall("analyze_text")
    => /\ outcome.status = "ok"
       /\ outcome.value.sentence_count = DelimiterRuns(call.args[1]) + 1

\* a text that ends with a run of two delimiters
C7_Witness ==
    /\ IsCall("analyze_text")
    /\ outcome.status = "ok"
    /\ Len(call.args[1]) >= 3
    /\ call.args[1][Len(call.args[1])] \in {".", "!", "?"}
    /\ call.args[1][Len(call.args[1]) - 1] \in {".", "!", "?"}
    /\ call.args[1][1] \notin {".", "!", "?"}
    /\ outcome.value.sentence_count = 2

IsSpace(c) == c \in {" ", "\n", "\t", "\r"}

WordStarts(text) ==
    {i \in 1..Len(text) : ~IsSpace(text[i]) /\ (i = 1 \/ IsSpace(text[i - 1]))}

\* C8: on a text without any word analyze_text returns normally with
\* word_count 0, average_word_length 0, most_common_words empty and
\* character_count the length of the text; on any other text
\* average_word_length is the sum of the word lengths over word_count, >= 0.
C8_NoWordsNoError ==
    IsCall("analyze_text")
    => LET text == call.args[1]
           a == outcome.value
       IN  /\ outcome.status = "ok"
           /\ a.character_count = Len(text)
           /\ a.word_count = Cardinality(WordStarts(text))
           /\ IF \A i \in 1..Len(text) : IsSpace(text[i])
              THEN /\ a.word_count = 0
                   /\ a.average_word_length = [num |-> 0, den |-> 1]
                   /\ a.most_common_words = <<>>
              ELSE /\ a.average_word_length.num
                        = Cardinality({i \in 1..Len(text) : ~IsSpace(text[i])})
                   /\ a.average_word_length.den = a.word_count
                   /\ a.average_word_length.den > 0
                   /\ a.average_word_length.num >= 0

\* a text of white space only, not empty
C8_Witness ==
    /\ IsCall("analyze_text")
    /\ outcome.status = "ok"
    /\ Len(call.args[1]) >= 2
    /\ \A i \in 1..Len(call.args[1]) : IsSpace(call.args[1][i])
    /\ outcome.value.word_count = 0

ErrorText(op) ==
    CASE op = "read_text_file"   -> "Error reading file"
      [] op = "write_text_file"  -> "Error writing to file"
      [] op = "analyze_text"     -> "Error analyzing text"
      [] op = "merge_text_files" -> "Error merging files"
      [] op = "search_text"      -> "Error searching text"
      [] op = "create_backup"    -> "Error creating backup"
      [] OTHER                   -> "none"

ErrorRecords == {i \in 1..Len(log) : log[i].level = "ERROR"}

\* C9: a failure inside an operation is logged as an error and raised: the
\* call raises exactly when it logged an error, its last record is then its
\* own error record, nothing is logged or written after the first error but
\* the error records of the enclosing operations, and no step is tried twice.
\* Reading a file that is not in the input directory, writing where the file
\* cannot be opened and searching with an invalid pattern are such failures.
C9_FailuresLoggedAndRaised ==
    /\ (outcome.status = "raise") <=> (ErrorRecords # {})
    /\ outcome.status = "raise"
       => /\ log[Len(log)].level = "ERROR"
          /\ log[Len(log)].msg[1] = ErrorText(call.op)
          /\ \A i \in 1..Len(log) : i > SetMin(ErrorRecords) => log[i].level = "ERROR"
          /\ Cardinality(ErrorRecords) <= 2
          /\ \A i, j \in ErrorRecords : i # j => log[i].msg[1] # log[j].msg[1]
    /\ Len(writes) <= 1
    /\ (IsCall("read_text_file") /\ JoinPath(input_dir, call.args[1]) \notin DOMAIN files)
       => outcome = Raise("FileNotFoundError")
    /\ (IsCall("write_text_file") /\ WritePath(call.args[1]) \notin DOMAIN files)
       => outcome.status = "raise"
    /\ (IsCall("search_text") /\ call.args[2] \in {<<"(", "a">>, <<"+", "a">>, <<"a", ")">>})
       => outcome.status = "raise" /\ outcome.exc[1] = "re.error"
    /\ (IsCall("merge_text_files") /\ writes = <<>>) => outcome.status = "raise"
    /\ (IsCall("create_backup") /\ writes = <<>>) => outcome.status = "raise"

\* create_backup read its file, failed to write the copy and raised
C9_Witness ==
    /\ IsCall("create_backup")
    /\ outcome.status = "raise"
    /\ Len(writes) = 1
    /\ Len(log) = 3
    /\ log[1].level = "INFO"

PureCall == {"analyze_text", "search_text"}

\* C10: a call of analyze_text or search_text leaves input_dir, output_dir,
\* the directories and every file as they were, and returns what the first
\* call with the same arguments returned, whatever ran in between.
C10_AnalyzeSearchPure ==
    [][(ncalls' = ncalls + 1 /\ call'.op \in PureCall)
       => /\ input_dir' = input_dir
          /\ output_dir' = output_dir
          /\ dirs' = dirs
          /\ files' = files
          /\ LET c == <<call'.op>> \o call'.args
             IN  c \in DOMAIN returned => outcome' = returned[c].out]_vars

\* the search made as first call is made again as third call, on a disk
\* that holds a file
C10_Witness ==
    /\ IsCall("search_text")
    /\ ncalls = 3
    /\ returned[<<"search_text">> \o call.args].at = 1
    /\ files # <<>>
    /\ outcome.status = "ok"
    /\ outcome.value # <<>>

\* C12: when a file of the list cannot be read, merge_text_files raises, never
\* invokes write_text_file and leaves every file and directory as it was,
\* also when earlier files of the list were read.
C12_MergeAllOrNothing ==
    [][(/\ Calls("merge_text_files")
        /\ \E k \in 1..Len(call'.args[1]) : ~Readable(files, call'.args[1][k]))
       => /\ outcome' = Raise("FileNotFoundError")
          /\ writes' = <<>>
          /\ files' = files
          /\ dirs' = dirs]_vars

\* a merge of two files read the first, failed on the second and raised, on
\* a disk where the output file is absent
C12_Witness ==
    /\ IsCall("merge_text_files")
    /\ outcome.status = "raise"
    /\ Len(call.args[1]) = 2
    /\ log[1].level = "INFO"
    /\ log[2].level = "ERROR"
    /\ writes = <<>>
    /\ WritePath(call.args[2]) \notin DOMAIN files

\* ================================================================== main()
\* the character U+0060 of the markdown fence, which a TLA+ string cannot hold
Backtick == "U+0060"

text_content ==
    <<"T","h","i","s"," ","i","s"," ","a"," ","p","l","a","i","n"," ","t","e","x","t"," ","f",
      "i","l","e"," ","e","x","a","m","p","l","e",".","\n","I","t"," ","c","o","n","t","a","i",
      "n","s"," ","m","u","l","t","i","p","l","e"," ","l","i","n","e","s"," ","o","f"," ","t",
      "e","x","t",".","\n","W","e"," ","c","a","n"," ","p","r","o","c","e","s","s"," ","a","n",
      "y"," ","k","i","n","d"," ","o","f"," ","t","e","x","t"," ","c","o","n","t","e","n","t",
      "!">>

python_content ==
    <<"d","e","f"," ","h","e","l","l","o","_","w","o","r","l","d","(",")",":","\n"," "," "," ",
      " ","p","r","i","n","t","(","\"","H","e","l","l","o",","," ","W","o","r","l","d","!","\"",
      ")","\n"," "," "," "," ","r","e","t","u","r","n"," ","T","r","u","e","\n","\n","i","f",
      " ","_","_","n","a","m","e","_","_"," ","=","="," ","\"","_","_","m","a","i","n","_","_",
      "\"",":","\n"," "," "," "," ","h","e","l","l","o","_","w","o","r","l","d","(",")">>

markdown_content ==
    <<"#"," ","S","a","m","p","l","e"," ","M","a","r","k","d","o","w","n","\n","#","#"," ","F",
      "e","a","t","u","r","e","s","\n","-"," ","P","o","i","n","t"," ","1","\n","-"," ","P","o",
      "i","n","t"," ","2","\n","\n","#","#","#"," ","C","o","d","e"," ","E","x","a","m","p","l",
      "e","\n",Backtick,Backtick,Backtick,"p","y","t","h","o","n","\n","p","r","i","n","t","(","\"","H","e",
      "l","l","o"," ","f","r","o","m"," ","m","a","r","k","d","o","w","n","!","\"",")","\n",Backtick,
      Backtick,Backtick>>

config_content ==
    <<"[","D","a","t","a","b","a","s","e","]","\n","h","o","s","t"," ","="," ","l","o","c","a",
      "l","h","o","s","t","\n","p","o","r","t"," ","="," ","5","4","3","2","\n","n","a","m","e",
      " ","="," ","m","y","d","b","\n","\n","[","A","P","I","]","\n","k","e","y"," ","="," ",
      "a","b","c","1","2","3","\n","t","i","m","e","o","u","t"," ","="," ","3","0">>

ExampleTxt ==
    <<"e","x","a","m","p","l","e",".","t","x","t">>

ScriptExamplePy ==
    <<"s","c","r","i","p","t","_","e","x","a","m","p","l","e",".","p","y">>

ReadmeMd ==
    <<"r","e","a","d","m","e",".","m","d">>

ConfigIni ==
    <<"c","o","n","f","i","g",".","i","n","i">>

MergedFilesTxt ==
    <<"m","e","r","g","e","d","_","f","i","l","e","s",".","t","x","t">>

DefaultInputDir ==
    <<"d","a","t","a","/","i","n","p","u","t">>

DefaultOutputDir ==
    <<"d","a","t","a","/","o","u","t","p","u","t">>

DataDir ==
    <<"d","a","t","a">>

\* files_to_merge
files_to_merge == <<ExampleTxt, ScriptExamplePy, ReadmeMd, ConfigIni>>

\* the content main() writes under each of these names
written_content == <<text_content, python_content, markdown_content, config_content>>

\* what an earlier run leaves behind when its output is copied to the input
\* directory: the four files and their merge, each present or not
PriorInput ==
    LET merged == MergedText([k \in 1..4 |-> Section(files_to_merge[k], written_content[k])])
        content == [k \in 1..5 |-> IF k = 5 THEN merged ELSE written_content[k]]
        name == [k \in 1..5 |-> IF k = 5 THEN MergedFilesTxt ELSE files_to_merge[k]]
    IN  {[p \in {JoinPath(DefaultInputDir, name[k]) : k \in P} |->
             content[CHOOSE k \in P : JoinPath(DefaultInputDir, name[k]) = p]] :
         P \in SUBSET (1..5)}

\* processor = TextProcessor(): the default directories, made with their parent
InitMain ==
    /\ input_dir = DefaultInputDir
    /\ output_dir = DefaultOutputDir
    /\ dirs = {DataDir, DefaultInputDir, DefaultOutputDir}
    /\ files \in PriorInput
    /\ call = [op |-> "__init__", args |-> <<input_dir, output_dir>>]
    /\ outcome = Ok(None)
    /\ log = <<Info(<<"TextProcessor initialized", input_dir, output_dir>>)>>
    /\ writes = <<>>
    /\ returned = <<>>
    /\ ncalls = 0
    /\ main = [pc |-> "write", k |-> 1, merged_content |-> <<>>, stdout |-> <<>>,
               fresh |-> (files = <<>>)]
    /\ batch = BatchIdle

\* a call main() makes on the processor, with all it leaves behind
MainCalls(op, args, res, fs, ws) ==
    /\ call' = [op |-> op, args |-> args]
    /\ outcome' = res.out
    /\ log' = res.log
    /\ writes' = ws
    /\ files' = fs
    /\ ncalls' = ncalls + 1
    /\ UNCHANGED <<input_dir, output_dir, dirs, batch>>

\* an exception nothing in main() catches
MainRaised == [main EXCEPT !.pc = "raised"]

\* lines 166-198: the four processor.write_text_file calls
MainWrite ==
    /\ main.pc = "write"
    /\ LET w == WriteTextFile(files, files_to_merge[main.k], written_content[main.k])
       IN  /\ MainCalls("write_text_file", <<files_to_merge[main.k], written_content[main.k]>>,
                        w, w.fs, <<<<files_to_merge[main.k], written_content[main.k]>>>>)
           /\ main' = IF w.out.status = "raise" THEN MainRaised
                      ELSE IF main.k < 4 THEN [main EXCEPT !.k = main.k + 1]
                      ELSE [main EXCEPT !.pc = "merge", !.k = 0]
    /\ UNCHANGED returned

\* lines 203-207: processor.merge_text_files, then the heading of the analysis
MainMerge ==
    /\ main.pc = "merge"
    /\ LET m == MergeTextFiles(files, files_to_merge, MergedFilesTxt)
       IN  /\ MainCalls("merge_text_files", <<files_to_merge, MergedFilesTxt>>, m, m.fs, m.writes)
           /\ main' = IF m.out.status = "raise" THEN MainRaised
                      ELSE [main EXCEPT !.pc = "analyze", !.k = 1,
                                        !.stdout = Append(@, <<"Analyzing different file types:">>)]
    /\ UNCHANGED returned

\* lines 208-216: one round of the analysis loop, inside its try/except
MainAnalyze ==
    /\ main.pc = "analyze"
    /\ LET filename == files_to_merge[main.k]
           r == ReadTextFile(files, filename)
           a == AnalyzeText(r.out.value)
           next == IF main.k < 4 THEN [main EXCEPT !.k = main.k + 1]
                   ELSE [main EXCEPT !.pc = "read_merged", !.k = 0]
       IN  IF r.out.status = "raise"
           THEN /\ MainCalls("read_text_file", <<filename>>, r, files, <<>>)
                /\ main' = [next EXCEPT !.stdout =
                               Append(@, <<"Error processing", filename, r.out.exc>>)]
                /\ UNCHANGED returned
           ELSE /\ MainCalls("analyze_text", <<r.out.value>>,
                             [out |-> a.out, log |-> r.log \o a.log], files, <<>>)
                /\ returned' = Recorded(<<"analyze_text", r.out.value>>, a.out)
                /\ main' = IF a.out.status = "raise"
                           THEN [next EXCEPT !.stdout =
                                    Append(@, <<"Error processing", filename, a.out.exc>>)]
                           ELSE [next EXCEPT !.stdout =
                                    Append(@, <<"Analysis for", filename, a.out.value>>)]

\* lines 219-220: merged_content = processor.read_text_file("merged_files.txt")
MainReadMerged ==
    /\ main.pc = "read_merged"
    /\ LET r == ReadTextFile(files, MergedFilesTxt)
           said == Append(main.stdout, <<"Searching for patterns in merged file:">>)
       IN  /\ MainCalls("read_text_file", <<MergedFilesTxt>>, r, files, <<>>)
           /\ main' = IF r.out.status = "raise" THEN [MainRaised EXCEPT !.stdout = said]
                      ELSE [main EXCEPT !.pc = "search_print", !.stdout = said,
                                        !.merged_content = r.out.value]
    /\ UNCHANGED returned

\* one processor.search_text call on merged_content and the print of its result
MainSearch(pattern, label, next) ==
    LET f == SearchText(main.merged_content, pattern)
    IN  /\ MainCalls("search_text", <<main.merged_content, pattern>>, f, files, <<>>)
        /\ returned' = Recorded(<<"search_text", main.merged_content, pattern>>, f.out)
        /\ main' = IF f.out.status = "raise" THEN MainRaised
                   ELSE [main EXCEPT !.pc = next, !.k = 1,
                                     !.stdout = Append(@, <<label, f.out.value>>)]

\* lines 223-224: the Python print statements
MainSearchPrints ==
    /\ main.pc = "search_print"
    /\ MainSearch(PrintPattern, "Found print statements:", "search_headers")

\* lines 227-228: the markdown headers
MainSearchHeaders ==
    /\ main.pc = "search_headers"
    /\ MainSearch(HeaderPattern, "Found markdown headers:", "backup")

\* lines 231-234: one round of the backup loop; datetime.now() is whatever
\* the clock says
MainBackup ==
    /\ main.pc = "backup"
    /\ \E now \in Times :
          LET filename == files_to_merge[main.k]
              b == CreateBackup(files, filename, now)
              said == IF main.k = 1 THEN Append(main.stdout, <<"Creating backups:">>)
                      ELSE main.stdout
          IN  /\ MainCalls("create_backup", <<filename>>, b, b.fs, b.writes)
              /\ main' = IF b.out.status = "raise" THEN [MainRaised EXCEPT !.stdout = said]
                         ELSE [main EXCEPT !.pc = IF main.k < 4 THEN "backup" ELSE "done",
                                           !.k = IF main.k < 4 THEN main.k + 1 ELSE 0,
                                           !.stdout = Append(said, <<"Backup created:", b.out.value>>)]
    /\ UNCHANGED returned

NextMain ==
    \/ MainWrite
    \/ MainMerge
    \/ MainAnalyze
    \/ MainReadMerged
    \/ MainSearchPrints
    \/ MainSearchHeaders
    \/ MainBackup

SpecMain == InitMain /\ [][NextMain]_vars

\* C11: started on empty default input and output directories, main() runs
\* its steps to the end: no exception of a processor operation escapes it.
C11_MainReachesEnd ==
    main.fresh => main.pc # "raised"

\* ============================================= Batch Summarization page
MaxRows == 3

\* the values of the 'text' column of uploaded tables
RowTexts == {<<"a">>, <<"b", " ", "c">>}

\* the column names of uploaded tables
UploadedColumns == {<<"id">>, <<"text">>, <<"id", "text">>, <<"text", "summary">>}

\* a data frame: its column names in order, its number of rows, and the
\* values of each column; columns other than 'text' hold the row number
Table(columns, texts) ==
    [columns |-> columns,
     n       |-> Len(texts),
     col     |-> [c \in Range(columns) |->
                     IF c = "text" THEN texts ELSE [k \in 1..Len(texts) |-> k]]]

\* pd.read_csv(uploaded_file): the tables an upload can hold
Tables == {Table(columns, texts) : columns \in UploadedColumns,
                                   texts \in StringsUpTo(RowTexts, MaxRows)}

\* df[name] = values: the column is replaced or added last; a list whose
\* length is not the number of rows is refused
SetColumn(df, name, values) ==
    IF Len(values) # df.n THEN Raise("ValueError")
    ELSE Ok([columns |-> IF name \in Range(df.columns) THEN df.columns
                         ELSE Append(df.columns, name),
             n       |-> df.n,
             col     |-> [c \in Range(df.columns) \cup {name} |->
                             IF c = name THEN values ELSE df.col[c]]])

\* what summarizer(txt, ...)[0]['summary_text'] can do: return some summary,
\* or raise some exception
SummaryTexts == {<<"s">>, <<"E", "r", "r">>}

ErrorMessages == {<<"o", "o", "m">>}

summarizer == {Ok(t) : t \in SummaryTexts} \cup {Raise(e) : e \in ErrorMessages}

ErrorPrefix == <<"E", "r", "r", "o", "r", ":", " ">>

BatchOutputDir == <<"o", "u", "t", "p", "u", "t">>

BatchOutputFile == <<"s", "u", "m", "m", "a", "r", "i", "z", "e", "d", "_", "b", "a", "t", "c", "h", ".", "c", "s", "v">>

\* os.path.join("output", "summarized_batch.csv")
output_path == JoinPath(BatchOutputDir, BatchOutputFile)

\* the variables of the text processor, which the app does not use
processorVars ==
    <<input_dir, output_dir, dirs, files, call, outcome, log, writes, returned, ncalls, main>>

\* the page is opened with a table uploaded or nothing uploaded, in a working
\* directory where "output" exists or not
InitBatch ==
    /\ input_dir = None
    /\ output_dir = None
    /\ dirs = {}
    /\ files = <<>>
    /\ call = None
    /\ outcome = None
    /\ log = <<>>
    /\ writes = <<>>
    /\ returned = <<>>
    /\ ncalls = 0
    /\ main = MainIdle
    /\ \E uploaded_file \in Tables \cup {None}, made \in {{}, {BatchOutputDir}} :
          batch = [pc |-> "uploader", uploaded_file |-> uploaded_file, df |-> None,
                   summaries |-> <<>>, results |-> <<>>, shown |-> <<>>,
                   made |-> made, disk |-> <<>>]

\* lines 40-45: read the upload and look for the 'text' column
BatchReadCsv ==
    /\ batch.pc = "uploader"
    /\ batch.uploaded_file # None
    /\ LET df == batch.uploaded_file
       IN  batch' = IF "text" \notin Range(df.columns)
                    THEN [batch EXCEPT !.pc = "done", !.df = df,
                                       !.shown = Append(@, "error: CSV must contain a 'text' column.")]
                    ELSE [batch EXCEPT !.pc = "loop", !.df = df, !.summaries = <<>>]
    /\ UNCHANGED processorVars

BatchSummarizeRow_SkipFailed ==
    /\ batch.pc = "loop"
    /\ Len(batch.results) < batch.df.n
    /\ \E r \in summarizer :
          LET txt == batch.df.col["text"][Len(batch.results) + 1]
          IN  batch' = [batch EXCEPT
                           !.summaries = IF r.status = "raise" THEN @ ELSE Append(@, r.value),
                           !.results = Append(@, [txt |-> txt, out |-> r])]
    /\ UNCHANGED processorVars

\* lines 46-51: one round of the loop over df['text']: the summarizer is
\* called on the row's text, and its summary or the text of its exception
\* is appended
BatchSummarizeRow ==
    /\ batch.pc = "loop"
    /\ Len(batch.results) < batch.df.n
    /\ \E r \in summarizer :
          LET txt == batch.df.col["text"][Len(batch.results) + 1]
              summary == IF r.status = "raise" THEN ErrorPrefix \o r.exc ELSE r.value
          IN  batch' = [batch EXCEPT
                           !.summaries = Append(@, summary),
                           !.results = Append(@, [txt |-> txt, out |-> r])]
    /\ UNCHANGED processorVars

\* lines 53-59: after the loop the summaries become a column, the table is
\* shown, and it is saved under output/
BatchSave ==
    /\ batch.pc = "loop"
    /\ Len(batch.results) = batch.df.n
    /\ LET assigned == SetColumn(batch.df, "summary", batch.summaries)
       IN  batch' = IF assigned.status = "raise"
                    THEN [batch EXCEPT !.pc = "raised"]
                    ELSE [batch EXCEPT
                             !.pc = "done",
                             !.df = assigned.value,
                             !.made = @ \cup {BatchOutputDir},
                             !.disk = Stored(@, output_path, assigned.value),
                             !.shown = @ \o <<assigned.value, "success: Summarization completed.">>]
    /\ UNCHANGED processorVars

NextBatch ==
    \/ BatchReadCsv
    \/ BatchSummarizeRow
    \/ BatchSave

SpecBatch == InitBatch /\ [][NextBatch]_vars

\* the entry the loop makes for a row, given what the summarizer did on it
EntryFor(out) ==
    IF out.status = "ok" THEN out.value
    ELSE <<"E", "r", "r", "o", "r", ":", " ">> \o out.exc

BatchFinished == batch.pc \in {"done", "raised"}

\* C13: when the run of the batch page ends on a table with a 'text' column,
\* the summarizer was called once on every row in row order, the summaries
\* are as many as the rows, each is the row's summary or "Error: " and the
\* message of the row's exception, and the table with these summaries is
\* saved; when the table has no 'text' column, the summarizer was never
\* called and no file was saved.
C13_OneSummaryPerRow ==
    BatchFinished =>
        LET table == batch.uploaded_file
        IN  IF "text" \in Range(table.columns)
            THEN /\ batch.pc = "done"
                 /\ Len(batch.results) = table.n
                 /\ Len(batch.summaries) = table.n
                 /\ \A k \in 1..table.n :
                       /\ batch.results[k].txt = table.col["text"][k]
                       /\ batch.summaries[k] = EntryFor(batch.results[k].out)
                 /\ output_path \in DOMAIN batch.disk
                 /\ batch.disk[output_path].col["summary"] = batch.summaries
            ELSE /\ batch.results = <<>>
                 /\ batch.summaries = <<>>
                 /\ batch.disk = <<>>

C13_Witness ==
    /\ batch.pc = "done"
    /\ batch.uploaded_file.n = 3
    /\ Len(batch.summaries) = 3
    /\ batch.results[1].out.status = "ok"
    /\ batch.results[2].out.status = "raise"
    /\ batch.results[3].out.status = "ok"
    /\ batch.summaries[2] = ErrorPrefix \o batch.results[2].out.exc
    /\ output_path \in DOMAIN batch.disk

====
